---- MODULE Spec2Model ----
(***************************************************************************)
(* A model of the cgroups metrics Collector (Collect / collect / Add) and  *)
(* of the memory controller (Create / Update / Stat / OOMEventFD / set /   *)
(* getMemorySettings / parseStats) of src/prometheus/metrics.go.           *)
(*                                                                         *)
(* Spec     : the concurrent Collector (threads calling Collect and Add,   *)
(*            one goroutine per tracked cgroup of a pass).                  *)
(* HangSpec : Spec with a Stat that may never return, under the            *)
(*            scheduler's fairness.                                         *)
(* LiveSpec : HangSpec with Add callers that wait for the mutex.           *)
(* MemSpec  : the memory controller acting on one cgroup path of the       *)
(*            kernel's memory hierarchy.                                    *)
(***************************************************************************)
EXTENDS Integers, Sequences, FiniteSets, Bags, TLC

(***************************************************************************)
(* Bounds of the Collector model.                                          *)
(***************************************************************************)
NumIds == 2
NumMetrics == 2
MaxPasses == 2

Ids == 1..NumIds
CgObjs == {"cgA", "cgB"}
Metrics == 1..NumMetrics
Collectors == {"c1"}
Adders == {"a1", "a2"}

None == "none"
ErrAlreadyCollected == "cgroup is already being collected"

VARIABLES
    cgroups,    \* Collector.cgroups: the registry, a function id -> cgroup
    muReaders,  \* Collector.mu: the threads holding the read lock
    muWriter,   \* Collector.mu: the thread holding the write lock, or None
    cpc,        \* position of each Collect caller
    pass,       \* number of the Collect call a caller is in (or has last made)
    todo,       \* ids the range loop of Collect has still to visit
    snap,       \* the registry as the range loop of Collect found it
    wg,         \* the WaitGroup counter of each caller's current Collect
    tasks,      \* the goroutines started by "go c.collect(...)"
    ch,         \* the sink: the bag of samples sent to the ch of each caller's call
    apc,        \* position of each Add caller
    aargs,      \* the arguments of each Add caller's current call
    aret,       \* what each Add caller's last call returned
    fs,         \* memory controller: the kernel's files of the cgroup path
    last        \* memory controller: the last call, its writes and its result

collVars == <<cgroups, muReaders, muWriter, cpc, pass, todo, snap, wg, tasks,
              ch, apc, aargs, aret>>
memVars == <<fs, last>>
vars == <<cgroups, muReaders, muWriter, cpc, pass, todo, snap, wg, tasks,
          ch, apc, aargs, aret, fs, last>>

(***************************************************************************)
(* The Collector.                                                          *)
(***************************************************************************)

\* New: an empty registry, an unlocked mutex.
CollInit ==
    /\ cgroups = <<>>
    /\ muReaders = {}
    /\ muWriter = None
    /\ cpc = [c \in Collectors |-> "idle"]
    /\ pass = [c \in Collectors |-> 0]
    /\ todo = [c \in Collectors |-> {}]
    /\ snap = [c \in Collectors |-> <<>>]
    /\ wg = [c \in Collectors |-> 0]
    /\ tasks = {}
    /\ ch = [c \in Collectors |-> EmptyBag]
    /\ apc = [a \in Adders |-> "idle"]
    /\ aargs = [a \in Adders |-> None]
    /\ aret = [a \in Adders |-> None]

\* A goroutine of "go c.collect(id, cg, ch, wg)": its arguments and position.
NewTask(c, id, cg) ==
    [c |-> c, pass |-> pass[c], id |-> id, cg |-> cg, st |-> "spawned", m |-> 0]

Sample(t, m) == [c |-> t.c, pass |-> t.pass, id |-> t.id, metric |-> m]

\* Variant: Collect enters the range loop without c.mu.RLock().
CollectNoRLock(c) ==
    /\ cpc[c] = "idle"
    /\ pass[c] < MaxPasses
    /\ cpc' = [cpc EXCEPT ![c] = "loop"]
    /\ pass' = [pass EXCEPT ![c] = @ + 1]
    /\ todo' = [todo EXCEPT ![c] = DOMAIN cgroups]
    /\ snap' = [snap EXCEPT ![c] = cgroups]
    /\ wg' = [wg EXCEPT ![c] = 0]
    /\ ch' = [ch EXCEPT ![c] = EmptyBag]
    /\ tasks' = {t \in tasks : ~(t.c = c /\ t.st \in {"done", "skipped"})}
    /\ UNCHANGED <<cgroups, muReaders, muWriter, apc, aargs, aret>>

\* c.mu.RLock(); wg := &sync.WaitGroup{}; the range loop is entered.
CollectRLock(c) ==
    /\ cpc[c] = "idle"
    /\ pass[c] < MaxPasses
    /\ muWriter = None
    /\ muReaders' = muReaders \cup {c}
    /\ cpc' = [cpc EXCEPT ![c] = "loop"]
    /\ pass' = [pass EXCEPT ![c] = @ + 1]
    /\ todo' = [todo EXCEPT ![c] = DOMAIN cgroups]
    /\ snap' = [snap EXCEPT ![c] = cgroups]
    /\ wg' = [wg EXCEPT ![c] = 0]
    /\ ch' = [ch EXCEPT ![c] = EmptyBag]
    /\ tasks' = {t \in tasks : ~(t.c = c /\ t.st \in {"done", "skipped"})}
    /\ UNCHANGED <<cgroups, muWriter, apc, aargs, aret>>

\* One iteration of the range loop: wg.Add(1); go c.collect(id, cg, ch, wg).
CollectSpawn(c) ==
    /\ cpc[c] = "loop"
    /\ \E id \in todo[c] :
        /\ wg' = [wg EXCEPT ![c] = @ + 1]
        /\ tasks' = tasks \cup {NewTask(c, id, cgroups[id])}
        /\ todo' = [todo EXCEPT ![c] = @ \ {id}]
    /\ UNCHANGED <<cgroups, muReaders, muWriter, cpc, pass, snap, ch, apc,
                   aargs, aret>>

\* Variant: the read lock is kept until after wg.Wait().
CollectRUnlockAfterWait(c) ==
    /\ cpc[c] = "loop"
    /\ todo[c] = {}
    /\ cpc' = [cpc EXCEPT ![c] = "wait"]
    /\ UNCHANGED <<cgroups, muReaders, muWriter, pass, todo, snap, wg, tasks,
                   ch, apc, aargs, aret>>

\* The loop is over: c.mu.RUnlock().
CollectRUnlock(c) ==
    /\ cpc[c] = "loop"
    /\ todo[c] = {}
    /\ muReaders' = muReaders \ {c}
    /\ cpc' = [cpc EXCEPT ![c] = "wait"]
    /\ UNCHANGED <<cgroups, muWriter, pass, todo, snap, wg, tasks, ch, apc,
                   aargs, aret>>

\* Variant: Collect returns without wg.Wait().
CollectNoWait(c) ==
    /\ cpc[c] = "wait"
    /\ cpc' = [cpc EXCEPT ![c] = "idle"]
    /\ UNCHANGED <<cgroups, muReaders, muWriter, pass, todo, snap, wg, tasks,
                   ch, apc, aargs, aret>>

\* wg.Wait() returns when the counter is zero, and Collect returns.
CollectWait(c) ==
    /\ cpc[c] = "wait"
    /\ wg[c] = 0
    /\ cpc' = [cpc EXCEPT ![c] = "idle"]
    /\ UNCHANGED <<cgroups, muReaders, muWriter, pass, todo, snap, wg, tasks,
                   ch, apc, aargs, aret>>

SetTask(t, u) == (tasks \ {t}) \cup {u}

\* The goroutine is scheduled and calls cg.Stat().
CollectStat(t) ==
    /\ t.st = "spawned"
    /\ tasks' = SetTask(t, [t EXCEPT !.st = "stat"])
    /\ UNCHANGED <<cgroups, muReaders, muWriter, cpc, pass, todo, snap, wg,
                   ch, apc, aargs, aret>>

\* cg.Stat() returns: with an error (logged, the goroutine returns) or with
\* the stats (the loop over c.metrics is entered).
CollectStatReturn(t) ==
    /\ t.st = "stat"
    /\ \E ok \in BOOLEAN :
        tasks' = SetTask(t, IF ok THEN [t EXCEPT !.st = "emit", !.m = 1]
                                  ELSE [t EXCEPT !.st = "failed"])
    /\ UNCHANGED <<cgroups, muReaders, muWriter, cpc, pass, todo, snap, wg,
                   ch, apc, aargs, aret>>

\* Variant: the loop over c.metrics is left after its first iteration.
CollectEmitFirstOnly(t) ==
    /\ t.st = "emit"
    /\ ch' = [ch EXCEPT ![t.c] = @ (+) SetToBag({Sample(t, t.m)})]
    /\ tasks' = SetTask(t, [t EXCEPT !.st = "emitted"])
    /\ UNCHANGED <<cgroups, muReaders, muWriter, cpc, pass, todo, snap, wg,
                   apc, aargs, aret>>

\* One iteration of "for _, m := range c.metrics": m.collect sends to ch.
CollectEmit(t) ==
    /\ t.st = "emit"
    /\ ch' = [ch EXCEPT ![t.c] = @ (+) SetToBag({Sample(t, t.m)})]
    /\ tasks' = SetTask(t, IF t.m = NumMetrics THEN [t EXCEPT !.st = "emitted"]
                                               ELSE [t EXCEPT !.m = @ + 1])
    /\ UNCHANGED <<cgroups, muReaders, muWriter, cpc, pass, todo, snap, wg,
                   apc, aargs, aret>>

\* Variant: wg.Done() is not deferred, the return after a failed Stat skips it.
CollectDoneNotDeferred(t) ==
    /\ t.st \in {"failed", "emitted"}
    /\ tasks' = SetTask(t, [t EXCEPT !.st = IF t.st = "failed" THEN "skipped"
                                                               ELSE "done"])
    /\ wg' = [wg EXCEPT ![t.c] = IF t.st = "failed" THEN @ ELSE @ - 1]
    /\ UNCHANGED <<cgroups, muReaders, muWriter, cpc, pass, todo, snap, ch,
                   apc, aargs, aret>>

\* The goroutine returns; the deferred wg.Done() runs.
CollectDone(t) ==
    /\ t.st \in {"failed", "emitted"}
    /\ tasks' = SetTask(t, [t EXCEPT !.st = IF t.st = "failed" THEN "skipped"
                                                               ELSE "done"])
    /\ wg' = [wg EXCEPT ![t.c] = @ - 1]
    /\ UNCHANGED <<cgroups, muReaders, muWriter, cpc, pass, todo, snap, ch,
                   apc, aargs, aret>>

\* cg.Stat() blocks for ever in a kernel read: the goroutine makes no further
\* step.
CollectStatHang(t) ==
    /\ t.st = "stat"
    /\ tasks' = SetTask(t, [t EXCEPT !.st = "hung"])
    /\ UNCHANGED <<cgroups, muReaders, muWriter, cpc, pass, todo, snap, wg,
                   ch, apc, aargs, aret>>

\* Add is called and reaches c.mu.Lock(), where it may have to wait.
AddCall(a) ==
    /\ apc[a] = "idle"
    /\ \E id \in Ids, cg \in CgObjs :
        aargs' = [aargs EXCEPT ![a] = [id |-> id, cg |-> cg]]
    /\ apc' = [apc EXCEPT ![a] = "calling"]
    /\ aret' = [aret EXCEPT ![a] = None]
    /\ UNCHANGED <<cgroups, muReaders, muWriter, cpc, pass, todo, snap, wg,
                   tasks, ch>>

\* c.mu.Lock() returns: no reader and no other writer holds the mutex.
AddAcquire(a) ==
    /\ apc[a] = "calling"
    /\ muWriter = None
    /\ muReaders = {}
    /\ muWriter' = a
    /\ apc' = [apc EXCEPT ![a] = "locked"]
    /\ UNCHANGED <<cgroups, muReaders, cpc, pass, todo, snap, wg, tasks, ch,
                   aargs, aret>>

\* Add is called: c.mu.Lock().
AddLock(a) ==
    /\ apc[a] = "idle"
    /\ muWriter = None
    /\ muReaders = {}
    /\ \E id \in Ids, cg \in CgObjs :
        aargs' = [aargs EXCEPT ![a] = [id |-> id, cg |-> cg]]
    /\ muWriter' = a
    /\ apc' = [apc EXCEPT ![a] = "locked"]
    /\ aret' = [aret EXCEPT ![a] = None]
    /\ UNCHANGED <<cgroups, muReaders, cpc, pass, todo, snap, wg, tasks, ch>>

\* Variant: Add without the "already collected" test (the entry is replaced).
AddBodyOverwrite(a) ==
    /\ apc[a] = "locked"
    /\ aret' = [aret EXCEPT ![a] = "nil"]
    /\ cgroups' = [i \in DOMAIN cgroups \cup {aargs[a].id} |->
                     IF i = aargs[a].id THEN aargs[a].cg ELSE cgroups[i]]
    /\ muWriter' = None
    /\ apc' = [apc EXCEPT ![a] = "idle"]
    /\ aargs' = [aargs EXCEPT ![a] = None]
    /\ UNCHANGED <<muReaders, cpc, pass, todo, snap, wg, tasks, ch>>

\* The body of Add under the lock, and the deferred c.mu.Unlock().
AddBody(a) ==
    /\ apc[a] = "locked"
    /\ IF aargs[a].id \in DOMAIN cgroups
       THEN /\ aret' = [aret EXCEPT ![a] = ErrAlreadyCollected]
            /\ cgroups' = cgroups
       ELSE /\ aret' = [aret EXCEPT ![a] = "nil"]
            /\ cgroups' = [i \in DOMAIN cgroups \cup {aargs[a].id} |->
                             IF i = aargs[a].id THEN aargs[a].cg ELSE cgroups[i]]
    /\ muWriter' = None
    /\ apc' = [apc EXCEPT ![a] = "idle"]
    /\ aargs' = [aargs EXCEPT ![a] = None]
    /\ UNCHANGED <<muReaders, cpc, pass, todo, snap, wg, tasks, ch>>

(***************************************************************************)
(* The memory controller, acting on one cgroup path.  The kernel is        *)
(* modelled by the rules the source relies on: a write that would make the *)
(* swap limit lower than the memory limit is rejected, and the             *)
(* kernel-memory limit cannot be set for the first time once tasks have    *)
(* joined the cgroup (or it has children).                                 *)
(***************************************************************************)
MaxLimit == 2
MaxFault == 2

Nil == "nil"                       \* the nil error
NilPtr == <<>>                     \* a nil pointer; <<v>> points to v
Unlimited == MaxLimit + 1          \* stands for the kernel's "no limit" value
LimitVals == 0..MaxLimit

ENOENT == "ENOENT"
EINVAL == "EINVAL"
EBUSY == "EBUSY"
EIO == "EIO"
EEXIST == "EEXIST"
ErrKmemBusy == "failed to set memory.kmem.limit_in_bytes, because either tasks have already joined this cgroup or it has children"

Opt(S) == {NilPtr} \cup {<<v>> : v \in S}
Deref(p) == p[1]

\* The combinations tried of the three knobs that no decision of the
\* controller reads (kernel-TCP limit, swappiness, OOM flag): each of them is
\* absent in some and present in some, the flag is nil, false and true.
PlainKnobs ==
    { [KernelTCP |-> NilPtr, Swappiness |-> NilPtr, DisableOOMKiller |-> NilPtr],
      [KernelTCP |-> <<1>>, Swappiness |-> NilPtr, DisableOOMKiller |-> <<TRUE>>],
      [KernelTCP |-> NilPtr, Swappiness |-> <<0>>, DisableOOMKiller |-> <<FALSE>>],
      [KernelTCP |-> <<1>>, Swappiness |-> <<0>>, DisableOOMKiller |-> NilPtr] }

\* specs.LinuxResources, as far as the controller reads it: Memory (nil, or
\* limits each of which is a pointer, nil or to a value) and DisableOOMKiller.
LinuxResources ==
    { [Memory |-> <<[Limit |-> l, Swap |-> s, Kernel |-> k,
                     KernelTCP |-> p.KernelTCP, Swappiness |-> p.Swappiness]>>,
       DisableOOMKiller |-> p.DisableOOMKiller] :
          l \in Opt(LimitVals), s \in Opt(LimitVals), k \in Opt({1}),
          p \in PlainKnobs }
    \cup { [Memory |-> NilPtr, DisableOOMKiller |-> o] : o \in Opt(BOOLEAN) }

\* The files of a cgroup directory as the kernel creates them (no limits, the
\* OOM killer enabled, the default swappiness of 60).
FreshDir ==
    [dir |-> TRUE, limit |-> Unlimited, memsw |-> Unlimited, kmem |-> Unlimited,
     kmemtcp |-> Unlimited, oom |-> 0, swappiness |-> 60,
     kmemActive |-> FALSE, tasks |-> FALSE]
NoDir == [FreshDir EXCEPT !.dir = FALSE]

\* No call is in progress: the caller has the result of its last call, and
\* "set" are the two limits that call set (<<>>: it set none, or failed).
NoCall == [op |-> "none", set |-> <<>>]
Idle == last.op = "none"

MemInit ==
    /\ fs = NoDir
    /\ last = NoCall

getOomControlValue(resources) ==
    IF resources.DisableOOMKiller # NilPtr /\ Deref(resources.DisableOOMKiller)
    THEN <<1>> ELSE NilPtr

getMemorySettings(resources) ==
    LET mem == Deref(resources.Memory)
        swappiness == IF mem.Swappiness # NilPtr THEN <<Deref(mem.Swappiness)>>
                      ELSE NilPtr
    IN << [name |-> "limit_in_bytes", value |-> mem.Limit],
          [name |-> "memsw.limit_in_bytes", value |-> mem.Swap],
          [name |-> "kmem.limit_in_bytes", value |-> mem.Kernel],
          [name |-> "kmem.tcp.limit_in_bytes", value |-> mem.KernelTCP],
          [name |-> "oom_control", value |-> getOomControlValue(resources)],
          [name |-> "swappiness", value |-> swappiness] >>

checkEBUSY(err) == IF err = EBUSY THEN ErrKmemBusy ELSE err

\* Decimal text, a sequence of characters.  strconv.FormatUint(n, 10) and
\* strconv.FormatInt(i, 10):
Digit == <<"0", "1", "2", "3", "4", "5", "6", "7", "8", "9">>
RECURSIVE FormatUint(_)
FormatUint(n) ==
    IF n < 10 THEN <<Digit[n + 1]>>
    ELSE Append(FormatUint(n \div 10), Digit[(n % 10) + 1])
FormatInt(i) == IF i < 0 THEN <<"-">> \o FormatUint(-i) ELSE FormatUint(i)

\* The parse of decimal text into an unsigned integer: an error for an empty
\* text and for any character that is not a digit.
Digits == {Digit[d] : d \in DOMAIN Digit}
IsDigit(c) == c \in Digits
DigitValues == [c \in Digits |-> (CHOOSE d \in DOMAIN Digit : Digit[d] = c) - 1]
DigitValue(c) == DigitValues[c]
RECURSIVE DigitsValue(_)
DigitsValue(text) ==
    IF text = <<>> THEN 0
    ELSE 10 * DigitsValue(SubSeq(text, 1, Len(text) - 1))
         + DigitValue(text[Len(text)])
ParseUint(text) ==
    IF text = <<>> \/ \E i \in DOMAIN text : ~IsDigit(text[i])
    THEN [err |-> EINVAL, value |-> 0]
    ELSE [err |-> Nil, value |-> DigitsValue(text)]

\* strings.TrimSpace, for the newline that ends the content of a kernel file.
RECURSIVE TrimSpace(_)
TrimSpace(text) ==
    IF text # <<>> /\ text[Len(text)] = "\n"
    THEN TrimSpace(SubSeq(text, 1, Len(text) - 1))
    ELSE text

\* The kernel's reading of the text written to a limit file: decimal, and -1
\* for "no limit".
KernelValue(v) ==
    LET text == FormatInt(v)
    IN IF text = <<"-", "1">> THEN Unlimited ELSE ParseUint(text).value

\* The number a file of the cgroup directory holds (the usage counters of
\* the idle cgroup are 0), and the text the kernel gives when it is read.
FileValue(f, name) ==
    CASE name = "limit_in_bytes" -> f.limit
      [] name = "memsw.limit_in_bytes" -> f.memsw
      [] name = "kmem.limit_in_bytes" -> f.kmem
      [] name = "kmem.tcp.limit_in_bytes" -> f.kmemtcp
      [] OTHER -> 0
FileText(f, name) == Append(FormatUint(FileValue(f, name)), "\n")

\* ioutil.WriteFile on a file of the cgroup directory: the error (or Nil).
\* "injected" stands for any other I/O failure of the write.
WriteErr(f, name, v, injected) ==
    IF injected THEN EIO
    ELSE IF ~f.dir THEN ENOENT
    ELSE IF name = "limit_in_bytes" /\ KernelValue(v) > f.memsw THEN EINVAL
    ELSE IF name = "memsw.limit_in_bytes" /\ KernelValue(v) < f.limit THEN EINVAL
    ELSE IF name = "kmem.limit_in_bytes" /\ f.tasks /\ ~f.kmemActive THEN EBUSY
    ELSE Nil

\* The files after an accepted write.
WriteFs(f, name, v) ==
    CASE name = "limit_in_bytes" -> [f EXCEPT !.limit = KernelValue(v)]
      [] name = "memsw.limit_in_bytes" -> [f EXCEPT !.memsw = KernelValue(v)]
      [] name = "kmem.limit_in_bytes" ->
             [f EXCEPT !.kmem = KernelValue(v), !.kmemActive = TRUE]
      [] name = "kmem.tcp.limit_in_bytes" -> [f EXCEPT !.kmemtcp = KernelValue(v)]
      [] name = "oom_control" -> [f EXCEPT !.oom = v]
      [] name = "swappiness" -> [f EXCEPT !.swappiness = v]

\* The running state of a call: the files, the reads and writes made so far
\* (the log), and the error of the last operation.
Io(f, log, err) == [fs |-> f, log |-> log, err |-> err]

\* One ioutil.WriteFile; the fault-th read or write of a call is the one that
\* fails for a reason of its own (fault = 0: none does).
WriteFile(io, name, v, fault) ==
    LET err == WriteErr(io.fs, name, v, Len(io.log) + 1 = fault)
        entry == [op |-> "write", name |-> name, value |-> v, err |-> err]
    IN Io(IF err = Nil THEN WriteFs(io.fs, name, v) ELSE io.fs,
          Append(io.log, entry), err)

\* Variant: set skips a value of zero as it skips nil.
RECURSIVE setSkipZero(_, _, _)
setSkipZero(io, settings, fault) ==
    IF settings = <<>> THEN [io EXCEPT !.err = Nil]
    ELSE LET t == Head(settings) IN
         IF t.value # NilPtr /\ Deref(t.value) > 0
         THEN LET w == WriteFile(io, t.name, Deref(t.value), fault) IN
              IF w.err # Nil THEN w ELSE setSkipZero(w, Tail(settings), fault)
         ELSE setSkipZero(io, Tail(settings), fault)

\* Variant: set goes on after a failed write and returns the first error.
RECURSIVE setContinue(_, _, _)
setContinue(io, settings, fault) ==
    IF settings = <<>> THEN io
    ELSE LET t == Head(settings) IN
         IF t.value # NilPtr
         THEN LET w == WriteFile(io, t.name, Deref(t.value), fault) IN
              setContinue([w EXCEPT !.err = IF io.err # Nil THEN io.err ELSE w.err],
                          Tail(settings), fault)
         ELSE setContinue(io, Tail(settings), fault)

\* memoryController.set: the settings in list order, nil values skipped, the
\* first error returned at once.
RECURSIVE set(_, _, _)
set(io, settings, fault) ==
    IF settings = <<>> THEN [io EXCEPT !.err = Nil]
    ELSE LET t == Head(settings) IN
         IF t.value # NilPtr
         THEN LET w == WriteFile(io, t.name, Deref(t.value), fault) IN
              IF w.err # Nil THEN w ELSE set(w, Tail(settings), fault)
         ELSE set(io, Tail(settings), fault)

\* Variant: os.Mkdir in place of os.MkdirAll (an existing directory is an
\* error).
MkdirExclusive(io, mkdirFails) ==
    LET err == IF mkdirFails THEN EIO ELSE IF io.fs.dir THEN EEXIST ELSE Nil
    IN Io(IF err = Nil THEN FreshDir ELSE io.fs, io.log, err)

\* os.MkdirAll of the cgroup path; mkdirFails: it fails.
MkdirAll(io, mkdirFails) ==
    LET err == IF mkdirFails THEN EIO ELSE Nil
    IN Io(IF err = Nil /\ ~io.fs.dir THEN FreshDir ELSE io.fs, io.log, err)

\* readUint of a file of the cgroup directory.
readUint(io, name, fault) ==
    LET parsed == ParseUint(TrimSpace(FileText(io.fs, name)))
        err == IF Len(io.log) + 1 = fault THEN EIO
               ELSE IF ~io.fs.dir THEN ENOENT ELSE parsed.err
        entry == [op |-> "read", name |-> name,
                  value |-> IF err = Nil THEN parsed.value ELSE 0, err |-> err]
    IN Io(io.fs, Append(io.log, entry), err)

\* Variant: the error of the first probe write is dropped.
KmemProbeIgnoreFirst(io, fault) ==
    LET w1 == WriteFile(io, "kmem.limit_in_bytes", 1, fault)
        w2 == WriteFile(w1, "kmem.limit_in_bytes", -1, fault)
    IN IF w2.err # Nil THEN [w2 EXCEPT !.err = checkEBUSY(w2.err)] ELSE w2

\* The two probe writes of Create (1, then -1), the error through checkEBUSY.
KmemProbe(io, fault) ==
    LET w1 == WriteFile(io, "kmem.limit_in_bytes", 1, fault) IN
    IF w1.err # Nil THEN [w1 EXCEPT !.err = checkEBUSY(w1.err)]
    ELSE LET w2 == WriteFile(w1, "kmem.limit_in_bytes", -1, fault) IN
         IF w2.err # Nil THEN [w2 EXCEPT !.err = checkEBUSY(w2.err)] ELSE w2

\* memoryController.Create.
CreateResult(f, resources, fault, mkdirFails) ==
    LET d == MkdirAll(Io(f, <<>>, Nil), mkdirFails) IN
    IF d.err # Nil THEN d
    ELSE IF resources.Memory = NilPtr THEN d
    ELSE LET k == IF Deref(resources.Memory).Kernel # NilPtr
                  THEN KmemProbe(d, fault)
                  ELSE d
         IN IF k.err # Nil THEN k
            ELSE set(k, getMemorySettings(resources), fault)

g(v) == v # NilPtr /\ Deref(v) > 0

Swap01(settings) ==
    [i \in DOMAIN settings |->
        IF i = 1 THEN settings[2] ELSE IF i = 2 THEN settings[1] ELSE settings[i]]

\* Variant: Update without the exchange of settings[0] and settings[1].
UpdateResultNoReorder(f, resources, fault) ==
    LET io == Io(f, <<>>, Nil) IN
    IF resources.Memory = NilPtr THEN io
    ELSE LET settings == getMemorySettings(resources)
             mem == Deref(resources.Memory)
         IN
         IF g(mem.Limit) /\ g(mem.Swap)
         THEN LET r == readUint(io, "limit_in_bytes", fault)
              IN IF r.err # Nil THEN r ELSE set(r, settings, fault)
         ELSE set(io, settings, fault)

\* Variant: Update comparing with "current <= swap".
UpdateResultLe(f, resources, fault) ==
    LET io == Io(f, <<>>, Nil) IN
    IF resources.Memory = NilPtr THEN io
    ELSE LET settings == getMemorySettings(resources)
             mem == Deref(resources.Memory)
         IN
         IF g(mem.Limit) /\ g(mem.Swap)
         THEN LET r == readUint(io, "limit_in_bytes", fault)
                  current == r.log[Len(r.log)].value
              IN IF r.err # Nil THEN r
                 ELSE IF current <= Deref(mem.Swap)
                      THEN set(r, Swap01(settings), fault)
                      ELSE set(r, settings, fault)
         ELSE set(io, settings, fault)

\* Variant: Update goes on when the read of the current limit fails.
UpdateResultIgnoreRead(f, resources, fault) ==
    LET io == Io(f, <<>>, Nil) IN
    IF resources.Memory = NilPtr THEN io
    ELSE LET settings == getMemorySettings(resources)
             mem == Deref(resources.Memory)
         IN
         IF g(mem.Limit) /\ g(mem.Swap)
         THEN LET r == readUint(io, "limit_in_bytes", fault)
                  current == r.log[Len(r.log)].value
              IN IF current < Deref(mem.Swap)
                 THEN set(r, Swap01(settings), fault)
                 ELSE set(r, settings, fault)
         ELSE set(io, settings, fault)

\* Variant: Update makes the directory first, as Create does.
UpdateResultMkdir(f, resources, fault) ==
    LET io == MkdirAll(Io(f, <<>>, Nil), FALSE) IN
    IF resources.Memory = NilPtr THEN io
    ELSE LET settings == getMemorySettings(resources)
             mem == Deref(resources.Memory)
         IN
         IF g(mem.Limit) /\ g(mem.Swap)
         THEN LET r == readUint(io, "limit_in_bytes", fault)
                  current == r.log[Len(r.log)].value
              IN IF r.err # Nil THEN r
                 ELSE IF current < Deref(mem.Swap)
                      THEN set(r, Swap01(settings), fault)
                      ELSE set(r, settings, fault)
         ELSE set(io, settings, fault)

\* memoryController.Update.
UpdateResult(f, resources, fault) ==
    LET io == Io(f, <<>>, Nil) IN
    IF resources.Memory = NilPtr THEN io
    ELSE LET settings == getMemorySettings(resources)
             mem == Deref(resources.Memory)
         IN
         IF g(mem.Limit) /\ g(mem.Swap)
         THEN LET r == readUint(io, "limit_in_bytes", fault)
                  current == r.log[Len(r.log)].value
              IN IF r.err # Nil THEN r
                 ELSE IF current < Deref(mem.Swap)
                      THEN set(r, Swap01(settings), fault)
                      ELSE set(r, settings, fault)
         ELSE set(io, settings, fault)

(***************************************************************************)
(* Stat.  The content of memory.stat is a sequence of lines, a line the    *)
(* sequence of its space-separated fields, a field a key or a text.        *)
(***************************************************************************)
MaxLines == 2

ErrInvalidFormat == "invalid format"

\* The lines tried: counters the snapshot names ("cache", "rss", "dirty"),
\* one it does not name ("swap"), and two malformed lines.
StatLines ==
    { <<"cache", FormatUint(1024)>>, <<"rss", FormatUint(2048)>>,
      <<"dirty", FormatUint(0)>>, <<"swap", FormatUint(5)>>,
      <<"rss">>, <<"dirty", <<"x", "1">>>> }

RECURSIVE SeqsUpTo(_, _)
SeqsUpTo(S, n) ==
    IF n = 0 THEN {<<>>}
    ELSE LET shorter == SeqsUpTo(S, n - 1)
         IN shorter \cup {Append(q, x) : q \in shorter, x \in S}
StatFiles == SeqsUpTo(StatLines, MaxLines)

\* parseKV: a line of two fields, the second an unsigned decimal.
parseKV(line) ==
    IF Len(line) # 2 THEN [err |-> ErrInvalidFormat, key |-> "", v |-> 0]
    ELSE LET p == ParseUint(line[2])
         IN IF p.err # Nil THEN [err |-> ErrInvalidFormat, key |-> "", v |-> 0]
            ELSE [err |-> Nil, key |-> line[1], v |-> p.value]

\* Variant: the scan loop of parseStats returns after its first line.
RECURSIVE scanFirstLine(_, _)
scanFirstLine(lines, out) ==
    IF lines = <<>> THEN [err |-> Nil, raw |-> out]
    ELSE LET kv == parseKV(Head(lines))
         IN IF kv.err # Nil THEN [err |-> kv.err, raw |-> <<>>]
            ELSE [err |-> Nil,
                  raw |-> [k \in DOMAIN out \cup {kv.key} |->
                              IF k = kv.key THEN kv.v ELSE out[k]]]

\* The scan loop of parseStats: out[key] = v for every line, the first
\* parse error returned.
RECURSIVE scan(_, _)
scan(lines, out) ==
    IF lines = <<>> THEN [err |-> Nil, raw |-> out]
    ELSE LET kv == parseKV(Head(lines))
         IN IF kv.err # Nil THEN [err |-> kv.err, raw |-> <<>>]
            ELSE scan(Tail(lines),
                      [k \in DOMAIN out \cup {kv.key} |->
                          IF k = kv.key THEN kv.v ELSE out[k]])

\* memoryController.parseStats: os.Open of memory.stat (an I/O operation of
\* the call, logged as a read), then the scan.
parseStats(io, statFile, fault) ==
    LET err == IF Len(io.log) + 1 = fault THEN EIO
               ELSE IF ~io.fs.dir THEN ENOENT ELSE Nil
        entry == [op |-> "read", name |-> "stat", value |-> 0, err |-> err]
        opened == Io(io.fs, Append(io.log, entry), err)
    IN IF err # Nil THEN [io |-> opened, raw |-> <<>>]
       ELSE LET r == scan(statFile, <<>>)
            IN [io |-> [opened EXCEPT !.err = r.err], raw |-> r.raw]

\* raw[key] of a Go map: the zero value for a key that is not in the map.
Lookup(raw, key) == IF key \in DOMAIN raw THEN raw[key] ELSE 0

\* The named counters of MemoryStat, each with the key it is read from.
StatFields ==
    [Cache |-> "cache", RSS |-> "rss", RSSHuge |-> "rss_huge",
      MappedFile |-> "mapped_file", Dirty |-> "dirty",
      Writeback |-> "writeback", PgPgIn |-> "pgpgin", PgPgOut |-> "pgpgout",
      PgFault |-> "pgfault", PgMajFault |-> "pgmajfault",
      InactiveAnon |-> "inactive_anon", ActiveAnon |-> "active_anon",
      InactiveFile |-> "inactive_file", ActiveFile |-> "active_file",
      Unevictable |-> "unevictable",
      HierarchicalMemoryLimit |-> "hierarchical_memory_limit",
      HierarchicalSwapLimit |-> "hierarchical_memsw_limit",
      TotalCache |-> "total_cache", TotalRSS |-> "total_rss",
      TotalRSSHuge |-> "total_rss_huge",
      TotalMappedFile |-> "total_mapped_file", TotalDirty |-> "total_dirty",
      TotalWriteback |-> "total_writeback", TotalPgPgIn |-> "total_pgpgin",
      TotalPgPgOut |-> "total_pgpgout", TotalPgFault |-> "total_pgfault",
      TotalPgMajFault |-> "total_pgmajfault",
      TotalInactiveAnon |-> "total_inactive_anon",
      TotalActiveAnon |-> "total_active_anon",
      TotalInactiveFile |-> "total_inactive_file",
      TotalActiveFile |-> "total_active_file",
      TotalUnevictable |-> "total_unevictable" ]
FieldNames == DOMAIN StatFields
KeyOf(field) == StatFields[field]

\* A MemoryEntry, and the MemoryStat made from the parsed counters.
ZeroEntry == [Usage |-> 0, Max |-> 0, Failcnt |-> 0, Limit |-> 0]
MemoryStat(raw) ==
    [Counters |-> [field \in FieldNames |-> Lookup(raw, KeyOf(field))],
     Usage |-> ZeroEntry, Swap |-> ZeroEntry, Kernel |-> ZeroEntry,
     KernelTCP |-> ZeroEntry]

\* The two tables the loops of Stat range over, and the reads they make, in
\* order: for every module, the four files of its entry.
Modules ==
    << [module |-> "", entry |-> "Usage"], [module |-> "memsw", entry |-> "Swap"],
       [module |-> "kmem", entry |-> "Kernel"],
       [module |-> "kmem.tcp", entry |-> "KernelTCP"] >>
EntryFiles ==
    << [name |-> "usage_in_bytes", value |-> "Usage"],
       [name |-> "max_usage_in_bytes", value |-> "Max"],
       [name |-> "failcnt", value |-> "Failcnt"],
       [name |-> "limit_in_bytes", value |-> "Limit"] >>
EntryReads ==
    [i \in 1..(Len(Modules) * Len(EntryFiles)) |->
        [t |-> Modules[((i - 1) \div Len(EntryFiles)) + 1],
         tt |-> EntryFiles[((i - 1) % Len(EntryFiles)) + 1]]]

\* Variant: the name of the file without the module.
FileNameNoModule(module, name) == name

\* strings.Join(parts, ".") without the "memory" the model leaves out of
\* every file name.
FileName(module, name) == IF module = "" THEN name ELSE module \o "." \o name

\* The loops of Stat over the entries: one readUint each, the first error
\* returned, the value stored in the entry otherwise.
RECURSIVE readEntries(_, _, _, _)
readEntries(io, mem, reads, fault) ==
    IF reads = <<>> THEN [io |-> [io EXCEPT !.err = Nil], mem |-> mem]
    ELSE LET rd == Head(reads)
             r == readUint(io, FileName(rd.t.module, rd.tt.name), fault)
         IN IF r.err # Nil THEN [io |-> r, mem |-> mem]
            ELSE readEntries(r,
                     [mem EXCEPT ![rd.t.entry][rd.tt.value] =
                                     r.log[Len(r.log)].value],
                     Tail(reads), fault)

\* memoryController.Stat: the I/O of the call and stats.Memory (NilPtr when
\* it has not been assigned).
StatResult(f, statFile, fault) ==
    LET p == parseStats(Io(f, <<>>, Nil), statFile, fault) IN
    IF p.io.err # Nil THEN [io |-> p.io, Memory |-> NilPtr]
    ELSE LET e == readEntries(p.io, MemoryStat(p.raw), EntryReads, fault)
         IN [io |-> e.io, Memory |-> <<e.mem>>]

(***************************************************************************)
(* OOMEventFD.  The descriptors of the process are numbers; the running    *)
(* state of a call is the set of descriptors it has open, the operations   *)
(* it has made on descriptors (the log) and the error of the last one.     *)
(***************************************************************************)

\* The operations of OOMEventFD that can fail, in the order they are made;
\* the fault-th of them fails for a reason of its own (0: none does).
OOMFailurePoints == <<"os.Open", "eventfd2", "os.OpenFile", "WriteString">>

\* The descriptor the kernel gives: the lowest that is not open (0, 1 and 2
\* are the standard streams).
LowestFree(open) ==
    CHOOSE n \in 3..(3 + Cardinality(open)) :
        n \notin open /\ \A m \in 3..(n - 1) : m \in open

FdOpen(p, kind, file, err) ==
    LET fd == IF err = Nil THEN LowestFree(p.open) ELSE 0
    IN [open |-> IF err = Nil THEN p.open \cup {fd} ELSE p.open,
        log |-> Append(p.log, [op |-> kind, file |-> file, fd |-> fd,
                               text |-> <<>>, err |-> err]),
        err |-> err, fd |-> fd]
FdClose(p, fd) ==
    [open |-> p.open \ {fd},
     log |-> Append(p.log, [op |-> "close", file |-> "", fd |-> fd,
                            text |-> <<>>, err |-> Nil]),
     err |-> p.err, fd |-> fd]
FdWrite(p, fd, text, err) ==
    [open |-> p.open,
     log |-> Append(p.log, [op |-> "write", file |-> "", fd |-> fd,
                            text |-> text, err |-> err]),
     err |-> err, fd |-> fd]

\* writeEventFD: cgroup.event_control is opened, "<efd> <cfd>" is written
\* and the file is closed, whatever the write returned.
writeEventFD(p, f, cfd, efd, fault) ==
    LET o == FdOpen(p, "open", "cgroup.event_control",
                    IF fault = 3 THEN EIO ELSE IF ~f.dir THEN ENOENT ELSE Nil)
    IN IF o.err # Nil THEN o
       ELSE LET w == FdWrite(o, o.fd,
                             FormatUint(efd) \o <<" ">> \o FormatUint(cfd),
                             IF fault = 4 THEN EIO ELSE Nil)
            IN [FdClose(w, o.fd) EXCEPT !.err = w.err]

\* Variant: the event descriptor is left open when the registration fails.
OOMEventFDLeak(f, fault) ==
    LET p0 == [open |-> {}, log |-> <<>>, err |-> Nil, fd |-> 0]
        o == FdOpen(p0, "open", "memory.oom_control",
                    IF fault = 1 THEN EIO ELSE IF ~f.dir THEN ENOENT ELSE Nil)
    IN IF o.err # Nil THEN o
       ELSE LET e == FdOpen(o, "eventfd2", "", IF fault = 2 THEN EIO ELSE Nil)
            IN IF e.err # Nil THEN [FdClose(e, o.fd) EXCEPT !.fd = 0]
               ELSE LET w == writeEventFD(e, f, o.fd, e.fd, fault)
                    IN IF w.err # Nil
                       THEN [FdClose(w, o.fd) EXCEPT !.fd = 0]
                       ELSE [FdClose(w, o.fd) EXCEPT !.fd = e.fd]

\* memoryController.OOMEventFD: the descriptors left open, the operations
\* made, the error and the descriptor returned.  The deferred f.Close() is
\* the last operation of every return that follows the os.Open.
OOMEventFDResult(f, fault) ==
    LET p0 == [open |-> {}, log |-> <<>>, err |-> Nil, fd |-> 0]
        o == FdOpen(p0, "open", "memory.oom_control",
                    IF fault = 1 THEN EIO ELSE IF ~f.dir THEN ENOENT ELSE Nil)
    IN IF o.err # Nil THEN o
       ELSE LET e == FdOpen(o, "eventfd2", "", IF fault = 2 THEN EIO ELSE Nil)
            IN IF e.err # Nil THEN [FdClose(e, o.fd) EXCEPT !.fd = 0]
               ELSE LET w == writeEventFD(e, f, o.fd, e.fd, fault)
                    IN IF w.err # Nil
                       THEN [FdClose(FdClose(w, e.fd), o.fd) EXCEPT !.fd = 0]
                       ELSE [FdClose(w, o.fd) EXCEPT !.fd = e.fd]

\* A call of Create or Update as one step: the files it leaves, and the
\* record of the call (arguments, files before, I/O operations, result).
\* Calls on one path are made one after the other.
Call(op, resources, mkdirFails, fault, res) ==
    /\ fault <= Len(res.log)
    /\ fs' = res.fs
    /\ last' = [op |-> op, resources |-> resources, mkdirFails |-> mkdirFails,
                pre |-> fs, log |-> res.log, ret |-> res.err]

Create ==
    /\ last = NoCall
    /\ \E resources \in LinuxResources, fault \in 0..MaxFault,
          mkdirFails \in BOOLEAN :
          /\ mkdirFails => fault = 0
          /\ \E res \in {CreateResult(fs, resources, fault, mkdirFails)} :
                Call("Create", resources, mkdirFails, fault, res)

Update ==
    /\ last = NoCall
    /\ \E resources \in LinuxResources, fault \in 0..MaxFault :
          \E res \in {UpdateResult(fs, resources, fault)} :
              Call("Update", resources, FALSE, fault, res)

\* The caller of a Create that succeeded calls Create once more, on the same
\* path and with the same resources.
CreateAgain ==
    /\ last.op = "Create" /\ last.ret = Nil /\ "again" \notin DOMAIN last
    /\ \E res \in {CreateResult(fs, last.resources, 0, FALSE)} :
          /\ fs' = res.fs
          /\ last' = [op |-> "Create", resources |-> last.resources,
                      mkdirFails |-> FALSE, pre |-> fs, log |-> res.log,
                      ret |-> res.err, again |-> TRUE]

\* The limits a call has just set: those of a Create or Update that provided
\* both limits and succeeded, none otherwise.
JustSet ==
    IF /\ last.op \in {"Create", "Update"} /\ last.ret = Nil
       /\ last.resources.Memory # NilPtr
       /\ Deref(last.resources.Memory).Limit # NilPtr
       /\ Deref(last.resources.Memory).Swap # NilPtr
    THEN <<[Limit |-> Deref(Deref(last.resources.Memory).Limit),
            Swap |-> Deref(Deref(last.resources.Memory).Swap)]>>
    ELSE <<>>

\* A call of Stat as one step; the files are left as they are.  "file" is
\* the content of memory.stat the call was given (none if the open failed);
\* a read that fails for a reason of its own is tried with the empty file,
\* and a memory.stat of more than one line in a cgroup as the kernel made it
\* (parseStats reads no other file, the limit files are read after it).
Stat ==
    /\ Idle
    /\ \E statFile \in StatFiles, fault \in 0..MaxFault :
          /\ fault = 0 \/ statFile = <<>>
          /\ Len(statFile) <= 1 \/ fs = FreshDir
          /\ \E res \in {StatResult(fs, statFile, fault)} :
              /\ fault <= Len(res.io.log)
              /\ fs' = res.io.fs
              /\ last' = [op |-> "Stat",
                          file |-> IF res.io.log[1].err = Nil THEN statFile
                                   ELSE <<>>,
                          pre |-> fs,
                          set |-> last.set, log |-> res.io.log,
                          ret |-> res.io.err, Memory |-> res.Memory]

\* A call of OOMEventFD as one step; the files are left as they are.
OOMEventFD ==
    /\ last = NoCall
    /\ \E fault \in 0..Len(OOMFailurePoints) :
          \E res \in {OOMEventFDResult(fs, fault)} :
              /\ fault = 0 \/ res.err # Nil
              /\ fs' = fs
              /\ last' = [op |-> "OOMEventFD", pre |-> fs, log |-> res.log,
                          ret |-> res.err, fd |-> res.fd, open |-> res.open]

\* The environment: a task joins the cgroup (or a child cgroup is created).
TaskJoin ==
    /\ last = NoCall
    /\ fs.dir
    /\ ~fs.tasks
    /\ fs' = [fs EXCEPT !.tasks = TRUE]
    /\ last' = NoCall

\* The caller has taken the result of its call; what the call set is kept for
\* a Stat that follows it at once, and dropped (Forget) before anything else.
Forget ==
    /\ Idle /\ last.set # <<>>
    /\ last' = NoCall
    /\ fs' = fs

Return ==
    /\ ~Idle
    /\ last' = [op |-> "none", set |-> JustSet]
    /\ fs' = fs

MemNext ==
    \/ Create /\ UNCHANGED collVars
    \/ Update /\ UNCHANGED collVars
    \/ CreateAgain /\ UNCHANGED collVars
    \/ Stat /\ UNCHANGED collVars
    \/ OOMEventFD /\ UNCHANGED collVars
    \/ Return /\ UNCHANGED collVars
    \/ Forget /\ UNCHANGED collVars
    \/ TaskJoin /\ UNCHANGED collVars

Init == CollInit /\ MemInit

Next ==
    \/ \E c \in Collectors : CollectRLock(c) /\ UNCHANGED memVars
    \/ \E c \in Collectors : CollectSpawn(c) /\ UNCHANGED memVars
    \/ \E c \in Collectors : CollectRUnlock(c) /\ UNCHANGED memVars
    \/ \E c \in Collectors : CollectWait(c) /\ UNCHANGED memVars
    \/ \E t \in tasks : CollectStat(t) /\ UNCHANGED memVars
    \/ \E t \in tasks : CollectStatReturn(t) /\ UNCHANGED memVars
    \/ \E t \in tasks : CollectEmit(t) /\ UNCHANGED memVars
    \/ \E t \in tasks : CollectDone(t) /\ UNCHANGED memVars
    \/ \E a \in Adders : AddLock(a) /\ UNCHANGED memVars
    \/ \E a \in Adders : AddBody(a) /\ UNCHANGED memVars

Spec == Init /\ [][Next]_vars

(***************************************************************************)
(* The Collector with a Stat that may never return (HangSpec), and with    *)
(* Add callers that wait in c.mu.Lock() as well (LiveSpec).  The scheduler *)
(* runs every goroutine that can make a step (weak fairness of the steps   *)
(* of Collect, of each task and of the body of Add); a caller waiting in   *)
(* Lock() gets the mutex if it is free again and again (strong fairness:   *)
(* sync.Mutex hands the lock to a waiter that has starved).  Whether       *)
(* Collect or Add is called at all, and whether a Stat returns or hangs,   *)
(* is left open.                                                           *)
(***************************************************************************)
CollectorStep(c) == CollectSpawn(c) \/ CollectRUnlock(c) \/ CollectWait(c)
TaskStep(c, id) ==
    \E t \in tasks :
        /\ t.c = c /\ t.id = id
        /\ CollectStat(t) \/ CollectStatReturn(t) \/ CollectEmit(t)
           \/ CollectDone(t)

HangNext ==
    \/ Next
    \/ \E t \in tasks : CollectStatHang(t) /\ UNCHANGED memVars

GoFairness ==
    /\ \A c \in Collectors : WF_vars(CollectorStep(c) /\ UNCHANGED memVars)
    /\ \A c \in Collectors, id \in Ids :
          WF_vars(TaskStep(c, id) /\ UNCHANGED memVars)

HangSpec == Init /\ [][HangNext]_vars /\ GoFairness

LiveNext ==
    \/ \E c \in Collectors : CollectRLock(c) /\ UNCHANGED memVars
    \/ \E c \in Collectors : CollectorStep(c) /\ UNCHANGED memVars
    \/ \E c \in Collectors, id \in Ids : TaskStep(c, id) /\ UNCHANGED memVars
    \/ \E t \in tasks : CollectStatHang(t) /\ UNCHANGED memVars
    \/ \E a \in Adders : AddCall(a) /\ UNCHANGED memVars
    \/ \E a \in Adders : AddAcquire(a) /\ UNCHANGED memVars
    \/ \E a \in Adders : AddBody(a) /\ UNCHANGED memVars

Fairness ==
    /\ GoFairness
    /\ \A a \in Adders : WF_vars(AddBody(a) /\ UNCHANGED memVars)
    /\ \A a \in Adders : SF_vars(AddAcquire(a) /\ UNCHANGED memVars)

LiveSpec == Init /\ [][LiveNext]_vars /\ Fairness

MemSpec == Init /\ [][MemNext]_vars

(***************************************************************************)
(* Properties of the Collector.                                            *)
(***************************************************************************)

Returned(c) == cpc[c] = "idle" /\ pass[c] > 0
TasksOf(c, id) == {t \in tasks : t.c = c /\ t.pass = pass[c] /\ t.id = id}
PassSample(c, id, m) == [c |-> c, pass |-> pass[c], id |-> id, metric |-> m]

\* C1 (Collector resilience): when a Collect call has returned, every cgroup
\* that was tracked when it read the registry had exactly one task; for each
\* whose Stat succeeded every metric of the table was sent exactly once, for
\* each whose Stat failed no sample was sent, and nothing else was sent.
C1_Resilience ==
    \A c \in Collectors : Returned(c) =>
        /\ \A id \in DOMAIN snap[c] :
              /\ Cardinality(TasksOf(c, id)) = 1
              /\ \A t \in TasksOf(c, id) :
                    /\ t.st \in {"done", "skipped"}
                    /\ t.cg = snap[c][id]
                    /\ \A m \in Metrics :
                          CopiesIn(PassSample(c, id, m), ch[c]) =
                              IF t.st = "done" THEN 1 ELSE 0
        /\ \A s \in BagToSet(ch[c]) :
              s.c = c /\ s.pass = pass[c] /\ s.id \in DOMAIN snap[c]
              /\ s.metric \in Metrics

\* A returned pass over two cgroups, one whose Stat failed, one whose succeeded.
C1_Witness ==
    \E c \in Collectors : Returned(c) /\
        \E t1, t2 \in tasks :
            /\ t1.c = c /\ t2.c = c /\ t1.pass = pass[c] /\ t2.pass = pass[c]
            /\ t1.st = "skipped" /\ t2.st = "done"

\* C2 (duplicate registration): an Add on a registered identifier returns
\* ErrAlreadyCollected and leaves the registry unchanged, an Add on a new one
\* returns nil and registers it, and no step ever removes or replaces an entry
\* (every identifier keeps the cgroup of its first successful Add).
C2_DuplicateAdd ==
    [][ /\ \A a \in Adders : (apc[a] = "locked" /\ apc'[a] = "idle") =>
              IF aargs[a].id \in DOMAIN cgroups
              THEN aret'[a] = ErrAlreadyCollected /\ cgroups' = cgroups
              ELSE /\ aret'[a] = "nil"
                   /\ DOMAIN cgroups' = DOMAIN cgroups \cup {aargs[a].id}
                   /\ cgroups'[aargs[a].id] = aargs[a].cg
        /\ \A id \in DOMAIN cgroups :
              id \in DOMAIN cgroups' /\ cgroups'[id] = cgroups[id]
      ]_vars

\* One Add was refused for an identifier that another Add had registered with
\* a different cgroup, which is still the registered one.
C2_Witness ==
    \E a, b \in Adders :
        /\ aret[a] = ErrAlreadyCollected /\ aret[b] = "nil"
        /\ \E id \in DOMAIN cgroups : cgroups[id] = "cgB"
        /\ \E id \in DOMAIN cgroups : cgroups[id] = "cgA"

C6_Barrier ==
    \A t \in tasks : t.st \notin {"done", "skipped"} =>
        cpc[t.c] \in {"loop", "wait"} /\ t.pass = pass[t.c]

\* A second Collect call has returned after two tasks that sent all samples.
C6_Witness ==
    \E c \in Collectors :
        /\ Returned(c) /\ pass[c] = 2
        /\ Cardinality({t \in tasks : t.c = c /\ t.st = "done"}) = 2
        /\ BagCardinality(ch[c]) = 2 * NumMetrics

\* The tasks of the current (or last) pass of a caller, and those of them
\* that have not completed.
PassTasks(c) == {t \in tasks : t.c = c /\ t.pass = pass[c]}
Running(c) == {t \in PassTasks(c) : t.st \notin {"done", "skipped"}}

\* C16 (snapshot semantics under concurrent Add): the registry does not change
\* while the loop of Collect runs, so the tasks of a pass are those of the
\* registry as Collect found it under the read lock: at most one task for an
\* identifier, none for an identifier registered later, each with the cgroup
\* found, and exactly one for every identifier once the loop is over; the
\* entries found stay registered, the tasks running are never more than the
\* tracked cgroups, and an Add is never kept out by a pass whose loop is over.
C16_SnapshotSemantics ==
    \A c \in Collectors :
        /\ cpc[c] = "loop" => snap[c] = cgroups
        /\ \A t \in PassTasks(c) :
              t.id \in DOMAIN snap[c] /\ t.cg = snap[c][t.id]
        /\ \A id \in Ids : Cardinality(TasksOf(c, id)) <= 1
        /\ (pass[c] > 0 /\ cpc[c] # "loop") =>
              \A id \in DOMAIN snap[c] : Cardinality(TasksOf(c, id)) = 1
        /\ \A id \in DOMAIN snap[c] :
              id \in DOMAIN cgroups /\ cgroups[id] = snap[c][id]
        /\ Cardinality(Running(c)) <= Cardinality(DOMAIN cgroups)
        /\ wg[c] = Cardinality(Running(c))
        /\ cpc[c] # "loop" =>
              \A a \in Adders :
                  (apc[a] = "idle" /\ muWriter = None) => ENABLED AddLock(a)

\* An Add registered a second cgroup while the only task of a pass was in its
\* Stat call: the pass has one task, the registry two entries.
C16_Witness ==
    \E c \in Collectors, a \in Adders :
        /\ cpc[c] = "wait" /\ aret[a] = "nil"
        /\ Cardinality(DOMAIN snap[c]) = 1 /\ Cardinality(DOMAIN cgroups) = 2
        /\ \E t \in PassTasks(c) : t.st = "stat"
        /\ Cardinality(PassTasks(c)) = 1

Hung(c) == \E t \in PassTasks(c) : t.st = "hung"

\* C17 (Collect termination): a Collect call returns unless one of its Stat
\* calls never returns; a Stat call that hangs stays hung and while a pass
\* has one its Collect call has not returned, so it never returns; and every
\* task of a pass completes unless its own Stat call hangs, whatever the
\* other tasks do.
C17_Termination ==
    /\ \A c \in Collectors :
          (cpc[c] # "idle") ~> (cpc[c] = "idle" \/ Hung(c))
    /\ \A c \in Collectors : [](Hung(c) => cpc[c] # "idle")
    /\ [][\A c \in Collectors : Hung(c) => Hung(c)']_vars
    /\ \A c \in Collectors, id \in Ids :
          (TasksOf(c, id) # {}) ~>
              (\E t \in TasksOf(c, id) : t.st \in {"done", "skipped", "hung"})

\* Collect waits at the barrier: the Stat call of one task hangs, the other
\* task has sent its samples and completed.
C17_Witness ==
    \E c \in Collectors :
        /\ cpc[c] = "wait" /\ Hung(c) /\ wg[c] = 1
        /\ \E t \in PassTasks(c) : t.st = "done"

\* C18 (Add is never blocked by an in-flight Stat): an Add that has been
\* called returns, whatever the Collect call in progress and its Stat calls
\* do, a Stat call that never returns included.
C18_AddNotBlocked ==
    \A a \in Adders : (apc[a] = "calling") ~> (apc[a] = "idle")

\* An Add holds the write lock while Collect waits at the barrier for a Stat
\* call that hangs.
C18_Witness ==
    \E c \in Collectors, a \in Adders :
        /\ cpc[c] = "wait" /\ Hung(c)
        /\ apc[a] = "locked" /\ muWriter = a

(***************************************************************************)
(* Properties of the memory controller.                                    *)
(***************************************************************************)

Called(op) == last.op = op
IsCall == last.op \in {"Create", "Update"}
HasMemory == last.resources.Memory # NilPtr
Mem == Deref(last.resources.Memory)
Log == last.log
IsWrite(e, name) == e.op = "write" /\ e.name = name
\* The writes of a call to the two limit files, in the order they were made.
IsLimitWrite(e) == IsWrite(e, "limit_in_bytes") \/ IsWrite(e, "memsw.limit_in_bytes")
LimitWrites == SelectSeq(Log, IsLimitWrite)
\* No read or write of the call failed for another reason than the ordering.
OnlyOrderingFailures == \A i \in DOMAIN Log : Log[i].err \in {Nil, EINVAL}
BothProvided == HasMemory /\ Mem.Limit # NilPtr /\ Mem.Swap # NilPtr
BothNonZero == HasMemory /\ g(Mem.Limit) /\ g(Mem.Swap)

\* C3 (memory/swap ordering): the files never hold a swap limit below the
\* memory limit; an Update that provides M' and S', on an existing cgroup and
\* with no I/O failure other than the kernel's ordering rejection, succeeds
\* with the files at M', S' when S' >= M', and fails with the ordering
\* rejection (EINVAL) exactly when S' < M'.
C3_OrderingInvariant ==
    /\ fs.dir => fs.memsw >= fs.limit
    /\ (Called("Update") /\ BothProvided /\ last.pre.dir /\ OnlyOrderingFailures) =>
          LET M == Deref(Mem.Limit)
              S == Deref(Mem.Swap)
          IN /\ S >= M => /\ last.ret = Nil
                          /\ fs.limit = M /\ fs.memsw = S
             /\ S < M => last.ret = EINVAL
             /\ last.ret \in {Nil, EINVAL}

\* An Update raised both limits above the old swap limit: writing the memory
\* limit first would have been rejected.
C3_Witness ==
    /\ Called("Update") /\ BothProvided /\ last.ret = Nil
    /\ Deref(Mem.Limit) > last.pre.memsw
    /\ fs.limit = Deref(Mem.Limit) /\ fs.memsw = Deref(Mem.Swap)
    /\ fs.limit < fs.memsw

\* The order of the limit writes of an Update that read the current limit:
\* swap first if current < new swap, memory first otherwise; the second
\* write is made when the first was accepted.
PolicyOrder ==
    /\ Len(Log) >= 1
    /\ Log[1].op = "read" /\ Log[1].name = "limit_in_bytes"
    /\ Log[1].err # Nil => Len(Log) = 1 /\ last.ret = Log[1].err
    /\ Log[1].err = Nil =>
          LET first == IF last.pre.limit < Deref(Mem.Swap)
                       THEN "memsw.limit_in_bytes" ELSE "limit_in_bytes"
              second == IF last.pre.limit < Deref(Mem.Swap)
                        THEN "limit_in_bytes" ELSE "memsw.limit_in_bytes"
          IN /\ Log[1].value = last.pre.limit
             /\ Len(Log) >= 2 /\ IsWrite(Log[2], first)
             /\ Log[2].err = Nil => Len(Log) >= 3 /\ IsWrite(Log[3], second)
             /\ Len(LimitWrites) <= 2

\* The limit writes of an Update that made no read: memory, then swap.
ListOrder ==
    /\ \A i \in DOMAIN Log : Log[i].op = "write"
    /\ Mem.Limit # NilPtr => Len(Log) >= 1 /\ IsWrite(Log[1], "limit_in_bytes")
    /\ (Mem.Limit # NilPtr /\ Mem.Swap # NilPtr /\ Log[1].err = Nil) =>
          Len(Log) >= 2 /\ IsWrite(Log[2], "memsw.limit_in_bytes")
    /\ (Mem.Limit = NilPtr /\ Mem.Swap # NilPtr) =>
          Len(Log) >= 1 /\ IsWrite(Log[1], "memsw.limit_in_bytes")

IsProbe(e, v) == IsWrite(e, "kmem.limit_in_bytes") /\ e.value = v

\* C7 (kernel-memory activation in Create): with a kernel-memory limit
\* requested, the first writes of Create are 1 and then -1 to the
\* kernel-memory limit file, made in the created directory before any limit
\* setting; if one of them fails Create returns and nothing else is written;
\* without a kernel-memory limit the file is not written at all.
C7_KmemProbe ==
    (Called("Create") /\ ~last.mkdirFails) =>
        IF HasMemory /\ Mem.Kernel # NilPtr
        THEN /\ Len(Log) >= 1 /\ IsProbe(Log[1], 1)
             /\ fs.dir
             /\ Log[1].err # Nil => Len(Log) = 1 /\ last.ret # Nil
             /\ Log[1].err = Nil =>
                   /\ Len(Log) >= 2 /\ IsProbe(Log[2], -1)
                   /\ Log[2].err # Nil => Len(Log) = 2 /\ last.ret # Nil
             /\ \A i \in DOMAIN Log : i > 2 => ~IsProbe(Log[i], -1)
        ELSE \A i \in DOMAIN Log : ~IsWrite(Log[i], "kmem.limit_in_bytes")

\* A Create with a memory and a kernel-memory limit whose second probe write
\* failed: two writes were made, the memory limit is as before.
C7_Witness ==
    /\ Called("Create") /\ HasMemory /\ Mem.Kernel # NilPtr /\ Mem.Limit # NilPtr
    /\ Len(Log) = 2 /\ Log[1].err = Nil /\ Log[2].err # Nil
    /\ fs.limit = last.pre.limit

\* C8 as claimed: when the failing write of a Create or Update is a write of
\* the kernel-memory limit file refused with EBUSY, the call returns the
\* descriptive error; any other failure is returned unchanged.
C8_BusyTranslated ==
    (IsCall /\ Len(Log) > 0 /\ Log[Len(Log)].err # Nil) =>
        LET e == Log[Len(Log)] IN
        IF IsWrite(e, "kmem.limit_in_bytes") /\ e.err = EBUSY
        THEN last.ret = ErrKmemBusy
        ELSE last.ret = e.err

\* The knobs of C9: its file, its pointer in the limits, its value on disk.
KnobFiles == {"limit_in_bytes", "memsw.limit_in_bytes", "kmem.limit_in_bytes",
              "kmem.tcp.limit_in_bytes", "swappiness"}
Knob(name) ==
    CASE name = "limit_in_bytes" -> Mem.Limit
      [] name = "memsw.limit_in_bytes" -> Mem.Swap
      [] name = "kmem.limit_in_bytes" -> Mem.Kernel
      [] name = "kmem.tcp.limit_in_bytes" -> Mem.KernelTCP
      [] name = "swappiness" -> Mem.Swappiness
OnDisk(f, name) ==
    CASE name = "limit_in_bytes" -> f.limit
      [] name = "memsw.limit_in_bytes" -> f.memsw
      [] name = "kmem.limit_in_bytes" -> f.kmem
      [] name = "kmem.tcp.limit_in_bytes" -> f.kmemtcp
      [] name = "swappiness" -> f.swappiness

\* A knob left unset: its file is not written and keeps its content (in a
\* directory Create has just made, the content the kernel gave it).  A knob
\* provided, zero included: in a call that succeeds its value is written and
\* is the content of the file.
WrittenIffProvided ==
    \A name \in KnobFiles :
        /\ Knob(name) = NilPtr =>
              /\ \A i \in DOMAIN Log : ~IsWrite(Log[i], name)
              /\ OnDisk(fs, name) =
                    OnDisk(IF last.pre.dir THEN last.pre ELSE FreshDir, name)
        /\ (Knob(name) # NilPtr /\ last.ret = Nil) =>
              /\ \E i \in DOMAIN Log :
                    IsWrite(Log[i], name) /\ Log[i].value = Deref(Knob(name))
                    /\ Log[i].err = Nil
              /\ OnDisk(fs, name) = Deref(Knob(name))

C10_OomControl ==
    IsCall =>
        /\ \A i \in DOMAIN Log : IsWrite(Log[i], "oom_control") => Log[i].value = 1
        /\ last.ret = Nil =>
              ((last.resources.DisableOOMKiller = <<TRUE>>) <=>
                  \E i \in DOMAIN Log :
                      IsWrite(Log[i], "oom_control") /\ Log[i].value = 1)

\* C11 (Create is idempotent): a Create that repeats, on the same path and
\* with the same resources, a Create that succeeded returns no error and
\* leaves every file of the cgroup as the first call left it.
C11_CreateIdempotent ==
    (Called("Create") /\ "again" \in DOMAIN last) =>
        last.ret = Nil /\ fs = last.pre

\* A repeated Create with a kernel-memory limit, a memory limit of 1 and a
\* swap limit of 2: it made the two probe writes again and wrote both limits.
C11_Witness ==
    /\ Called("Create") /\ "again" \in DOMAIN last /\ HasMemory
    /\ Mem.Kernel # NilPtr /\ Mem.Limit = <<1>> /\ Mem.Swap = <<2>>
    /\ Len(Log) >= 5 /\ IsProbe(Log[1], 1) /\ IsProbe(Log[2], -1)
    /\ fs.limit = 1 /\ fs.memsw = 2

\* Nothing to set: no Memory in the resources, or a Memory with every knob
\* unset and the OOM killer not disabled.
NothingToSet ==
    \/ ~HasMemory
    \/ /\ \A name \in KnobFiles : Knob(name) = NilPtr
       /\ getOomControlValue(last.resources) = NilPtr

\* C15 (Update never creates the cgroup directory): an Update on a path whose
\* directory does not exist leaves it absent (and so no file under it), every
\* read or write it attempts fails; an Update with nothing to set makes no
\* read and no write, returns nil and leaves the path as it was.
C15_UpdateNeverCreates ==
    Called("Update") =>
        /\ ~last.pre.dir =>
              /\ ~fs.dir /\ fs = last.pre
              /\ \A i \in DOMAIN Log : Log[i].err # Nil
        /\ NothingToSet => Log = <<>> /\ last.ret = Nil /\ fs = last.pre

\* An Update with a memory limit on a path that was never created: its one
\* write failed, there is still no directory.
C15_Witness ==
    /\ Called("Update") /\ HasMemory /\ Mem.Limit = <<1>> /\ Mem.Swap = NilPtr
    /\ ~last.pre.dir /\ ~fs.dir
    /\ Len(Log) = 1 /\ IsWrite(Log[1], "limit_in_bytes") /\ last.ret = ENOENT

\* The content of a file the controller writes, the OOM-control file included.
Content(f, name) == IF name = "oom_control" THEN f.oom ELSE OnDisk(f, name)
\* The files as the call found them (as the kernel made them, for a Create
\* that made the directory).
Found ==
    IF last.op = "Create" /\ ~last.mkdirFails /\ ~last.pre.dir
    THEN FreshDir ELSE last.pre
Accepted(name) == {i \in DOMAIN Log : IsWrite(Log[i], name) /\ Log[i].err = Nil}

\* C19 (no rollback on a failed limit write): in a Create or Update only the
\* last read or write can have failed (nothing is attempted after a
\* failure), the call then returns that error (the descriptive error for a
\* probe write refused as busy), and returns nil when none failed; every
\* file holds the last value the call wrote to it with success, and its
\* content as found when the call wrote none.
C19_NoRollback ==
    IsCall =>
        /\ \A i \in DOMAIN Log : i < Len(Log) => Log[i].err = Nil
        /\ (Len(Log) > 0 /\ Log[Len(Log)].err # Nil) =>
              LET e == Log[Len(Log)]
              IN \/ last.ret = e.err
                 \/ e.err = EBUSY /\ last.ret = ErrKmemBusy
        /\ ((\A i \in DOMAIN Log : Log[i].err = Nil) /\ ~last.mkdirFails) =>
              last.ret = Nil
        /\ \A name \in KnobFiles \cup {"oom_control"} :
              Content(fs, name) =
                  IF Accepted(name) = {} THEN Content(Found, name)
                  ELSE LET i == CHOOSE j \in Accepted(name) :
                                   \A k \in Accepted(name) : k <= j
                       IN KernelValue(Log[i].value)

\* An Update with a new swap limit below the new memory limit: the memory
\* limit was written, the swap limit was refused and is as it was.
C19_Witness ==
    /\ Called("Update") /\ BothNonZero /\ Deref(Mem.Swap) < Deref(Mem.Limit)
    /\ last.ret = EINVAL /\ Len(Log) = 3
    /\ fs.limit = Deref(Mem.Limit) /\ fs.limit # last.pre.limit
    /\ fs.memsw = last.pre.memsw

C12_LimitRoundTrip ==
    (Called("Stat") /\ last.set # <<>> /\ last.ret = Nil) =>
        LET L == last.set[1].Limit
            S == last.set[1].Swap
        IN S >= L =>
              /\ Deref(last.Memory).Usage.Limit = L
              /\ Deref(last.Memory).Swap.Limit = S

\* A Stat after a call that set L = 1 and S = 2: it made its 17 reads and
\* reports the two limits.
C12_Witness ==
    /\ Called("Stat") /\ last.set = <<[Limit |-> 1, Swap |-> 2]>>
    /\ last.ret = Nil /\ Len(Log) = 17
    /\ Deref(last.Memory).Usage.Limit = 1
    /\ Deref(last.Memory).Swap.Limit = 2

\* The numbers of the lines tried with their decimal texts, and a well-formed
\* memory.stat: every line is a key and the decimal text of a number.
StatNumbers == {0, 5, 1024, 2048}
StatTexts == {FormatUint(n) : n \in StatNumbers}
NumberOf == [text \in StatTexts |-> CHOOSE n \in StatNumbers : FormatUint(n) = text]
WellFormed(file) ==
    \A i \in DOMAIN file : Len(file[i]) = 2 /\ file[i][2] \in StatTexts

\* C14 (missing optional counter key): a Stat of a well-formed memory.stat
\* whose reads all succeed returns no error, and in its snapshot every named
\* counter whose key is not in the file is 0 and every named counter whose
\* key is in the file is the number of that line.
C14_MissingKeyIsZero ==
    (/\ Called("Stat") /\ WellFormed(last.file)
     /\ \A i \in DOMAIN Log : Log[i].err = Nil) =>
        /\ last.ret = Nil
        /\ last.Memory # NilPtr
        /\ LET keys == {last.file[i][1] : i \in DOMAIN last.file}
               counters == Deref(last.Memory).Counters
           IN /\ \A field \in FieldNames :
                    KeyOf(field) \notin keys => counters[field] = 0
              /\ \A i \in DOMAIN last.file, field \in FieldNames :
                    KeyOf(field) = last.file[i][1] =>
                        counters[field] = NumberOf[last.file[i][2]]

\* The file "cache 1024\nrss 2048\n": Cache is 1024, RSS is 2048, the absent
\* Dirty and TotalCache are 0.
C14_Witness ==
    /\ Called("Stat") /\ last.ret = Nil
    /\ last.file = << <<"cache", FormatUint(1024)>>, <<"rss", FormatUint(2048)>> >>
    /\ Deref(last.Memory).Counters["Cache"] = 1024
    /\ Deref(last.Memory).Counters["RSS"] = 2048
    /\ Deref(last.Memory).Counters["Dirty"] = 0
    /\ Deref(last.Memory).Counters["TotalCache"] = 0

(***************************************************************************)
(* Properties of OOMEventFD.                                               *)
(***************************************************************************)

\* The descriptors a call opened with os.Open / os.OpenFile, and with eventfd2.
FileFds == {Log[i].fd : i \in {j \in DOMAIN Log : Log[j].op = "open" /\ Log[j].err = Nil}}
EventFds == {Log[i].fd : i \in {j \in DOMAIN Log : Log[j].op = "eventfd2" /\ Log[j].err = Nil}}
ClosedOnce(fd) == Cardinality({i \in DOMAIN Log : Log[i].op = "close" /\ Log[i].fd = fd}) = 1

\* C13 (OOM event registration leaks no descriptor): on every return of
\* OOMEventFD the OOM-control file and the event-control file it opened are
\* closed (each once); if the call fails, the event descriptor it created is
\* closed too and no descriptor is left open; if it succeeds, the one
\* descriptor left open is the event descriptor, which is the one returned.
C13_NoDescriptorLeak ==
    Called("OOMEventFD") =>
        /\ \A fd \in FileFds : fd \notin last.open /\ ClosedOnce(fd)
        /\ last.ret # Nil => last.open = {} /\ \A fd \in EventFds : ClosedOnce(fd)
        /\ last.ret = Nil =>
              /\ Cardinality(EventFds) = 1 /\ last.open = EventFds
              /\ last.fd \in EventFds
              /\ Cardinality(FileFds) = 2

\* The write to the event-control file failed: three descriptors had been
\* opened, none is open at the return.
C13_Witness ==
    /\ Called("OOMEventFD") /\ last.ret # Nil
    /\ \E i \in DOMAIN Log : Log[i].op = "write" /\ Log[i].err # Nil
    /\ Cardinality(FileFds) = 2 /\ Cardinality(EventFds) = 1
    /\ last.open = {}

====
